---- MODULE Spec2Model ----
(***************************************************************************)
(* Background task execution and UI-safe reporting of the two application  *)
(* variants of the repository:                                             *)
(*   CompilerApp     (src/ide_compiler.py)                                 *)
(*   CompilerIDEApp  (src/main.py)                                         *)
(* One behaviour is one run of one variant (chosen in Init) on a small     *)
(* workspace of files.  The UI-owning thread runs one handler at a time;   *)
(* a modal dialog in the middle of a handler is a nested event loop in     *)
(* which timer / after(0) callbacks still run but user input is grabbed.   *)
(* A worker thread advances one block at a time: the statements between    *)
(* two points where it reads shared state or blocks on a child process,    *)
(* with the console writes of the block handed over in order.              *)
(***************************************************************************)
EXTENDS Integers, Sequences, FiniteSets, TLC

\* ------------------------------------------------------------------ bounds
\* Number of tasks a behaviour may dispatch.
MaxTasks == 2
\* Number of console lines the UI thread itself may write ("Opened: ..", "Saved: ..").
MaxUiWrites == 2
\* Number of tasks started and console lines written by the UI thread, together.
MaxConsoleOps == 3
\* Number of console appends that may raise.
MaxAppendErrors == 1

\* ------------------------------------------------------------------- data
Apps == {"CompilerApp", "CompilerIDEApp"}

\* A path is its stem and its suffix; every file lives in one source directory.
NoPath == [stem |-> "", ext |-> ""]
a_c == [stem |-> "a", ext |-> ".c"]
p_py == [stem |-> "p", ext |-> ".py"]
J_java == [stem |-> "J", ext |-> ".java"]
n_txt == [stem |-> "n", ext |-> ".txt"]
x_h == [stem |-> "x", ext |-> ".H"]
\* The workspaces a behaviour is run on: the files the explorer shows.
Workspaces == {{a_c, p_py}, {J_java, n_txt}, {x_h}}
AllPaths == UNION Workspaces

\* The executables shutil.which may find.
AllTools == {"gcc", "g++", "javac", "java"}
ToolSets == {AllTools, {"java"}, {}}

\* str.lower() on the suffixes in use.
Lower(ext) ==
    CASE ext = ".C" -> ".c"
      [] ext = ".PY" -> ".py"
      [] ext = ".JAVA" -> ".java"
      [] ext = ".H" -> ".h"
      [] OTHER -> ext

\* CompilerApp._detect_language; "none" is Python's None.
_detect_language(path) ==
    LET ext == Lower(path.ext) IN
    IF ext = ".py" THEN "python"
    ELSE IF ext \in {".c", ".h"} THEN "c"
    ELSE IF ext \in {".cpp", ".cc", ".cxx", ".hpp"} THEN "cpp"
    ELSE IF ext = ".java" THEN "java"
    ELSE "none"

\* The if/elif chain on ext that CompilerIDEApp._compile and ._run share.
ide_language(path) ==
    LET ext == Lower(path.ext) IN
    IF ext = ".py" THEN "python"
    ELSE IF ext = ".c" THEN "c"
    ELSE IF ext \in {".cpp", ".cc", ".cxx"} THEN "cpp"
    ELSE IF ext = ".java" THEN "java"
    ELSE "none"

Language(a, path) ==
    IF a = "CompilerApp" THEN _detect_language(path) ELSE ide_language(path)

\* The compiler each language needs on the search path.
Compiler(lang) ==
    CASE lang = "c" -> "gcc"
      [] lang = "cpp" -> "g++"
      [] lang = "java" -> "javac"
      [] OTHER -> "python"

\* The artifact a compile of path produces and a run looks for.
Artifact(a, path, lang) ==
    IF lang = "java" THEN [dir |-> "src", stem |-> path.stem, suffix |-> ".class"]
    ELSE IF a = "CompilerApp" THEN [dir |-> "build", stem |-> path.stem, suffix |-> ""]
    ELSE [dir |-> "src", stem |-> path.stem, suffix |-> ""]

AllArtifacts ==
    {Artifact(a, p, Language(a, p)) : a \in Apps, p \in AllPaths}

\* What a child process can do once spawned: exit code, whether it printed to
\* stdout / stderr, whether (a compiler) it left its artifact behind.
Outcomes ==
    { [code |-> 0, so |-> FALSE, se |-> FALSE, made |-> TRUE],
      [code |-> 0, so |-> TRUE, se |-> FALSE, made |-> FALSE],
      [code |-> 1, so |-> FALSE, se |-> TRUE, made |-> FALSE] }

NoCmd == [step |-> "none", tool |-> "none", target |-> NoPath, cwd |-> "none"]

\* A worker thread that has not been started.
NoTask ==
    [pc |-> "none", fn |-> "none", arg |-> NoPath, rpath |-> NoPath,
     cpath |-> NoPath, nested |-> FALSE, out |-> <<>>, nw |-> 0,
     cmd |-> NoCmd, cmds |-> <<>>, raised |-> FALSE, at |-> NoPath, pred |-> {},
     had |-> "none", calls |-> 0, codes |-> <<>>]

\* No dialog is open.  Only the save prompt is a state of its own: a
\* showerror / showinfo box changes nothing while it is up and lets no user
\* event in, so the handler that shows one is taken through it in one step.
NoModal == [dlg |-> "none", kind |-> "none"]

\* How the step just taken ended a compile / run request (NoOutcome if it
\* ended none): res is "noactive" (no file), "aborted" (save prompt), "rejected"
\* (_run_background found a task running) or "dispatched"; prompted / saved
\* say whether it showed the save prompt and wrote the document; ans is the
\* answer to the save prompt given in this step; msg is the message its last
\* statement showed the user.
NoOutcome ==
    [res |-> "none", prompted |-> FALSE, saved |-> FALSE, ans |-> "none", msg |-> "none"]

\* A line written by a handler of the UI thread ("Opened: ..", "Saved: ..",
\* "Saved As: .."): it belongs to no task.
UiChunk == [task |-> 0, seq |-> 0, tag |-> "system", kind |-> "ui"]

VARIABLES
    app,          \* the variant this behaviour runs
    files,        \* the workspace
    tools,        \* executables on the search path
    active_path,  \* CompilerApp.active_path / CompilerIDEApp.current_file
    dirty,        \* editor.is_dirty / editor.edit_modified()
    artifacts,    \* the artifacts that exist
    running,      \* CompilerApp.running
    buttons,      \* the four toolbar buttons are enabled
    status,       \* the status text
    modal,        \* the dialog the UI thread waits in, inside a handler
    tasks,        \* task id -> its worker thread
    ntasks,       \* tasks dispatched so far
    queue,        \* ConsolePane._queue
    afterq,       \* Tk's after(0) callbacks, in the order scheduled
    surface,      \* the console Text widget
    outcome,      \* how the step just taken ended a compile / run request
    mutators,     \* the threads that changed a widget or the flag
    append_errors \* ConsolePane._append calls that raised

vars ==
    <<app, files, tools, active_path, dirty, artifacts, running,
      buttons, status, modal, tasks, ntasks, queue, afterq, surface,
      outcome, mutators, append_errors>>

TaskIds == 1..MaxTasks

Init ==
    /\ app \in Apps
    /\ files \in Workspaces
    /\ tools \in ToolSets
    /\ active_path = NoPath
    /\ dirty = FALSE
    /\ artifacts = {}
    /\ running = FALSE
    /\ buttons = TRUE
    /\ status = "Ready"
    /\ modal = NoModal
    /\ tasks = [t \in TaskIds |-> NoTask]
    /\ ntasks = 0
    /\ queue = <<>>
    /\ afterq = <<>>
    /\ surface = <<>>
    /\ outcome = NoOutcome
    /\ mutators = {"ui"}
    /\ append_errors = 0

\* ------------------------------------------------------------ the UI thread
\* A handler of the UI thread runs to completion (or to its next modal
\* dialog) in one step.  It is computed on a record of the fields it can
\* touch, and the record is written back by Commit.
Cur ==
    [ap |-> active_path, dirty |-> dirty,
     queue |-> queue, running |-> running, buttons |-> buttons,
     status |-> status, tasks |-> tasks, ntasks |-> ntasks,
     mutators |-> mutators, res |-> "none", msg |-> "none", ans |-> "none",
     prompted |-> FALSE, saved |-> FALSE]

Commit(u, m) ==
    /\ active_path' = u.ap
    /\ dirty' = u.dirty
    /\ queue' = u.queue
    /\ running' = u.running
    /\ buttons' = u.buttons
    /\ status' = u.status
    /\ tasks' = u.tasks
    /\ ntasks' = u.ntasks
    /\ outcome' = [res |-> u.res, prompted |-> u.res # "none" /\ u.prompted,
                    saved |-> u.res # "none" /\ u.saved, ans |-> u.ans,
                    msg |-> IF u.res = "none" THEN "none" ELSE u.msg]
    /\ mutators' = u.mutators
    /\ modal' = m
    /\ u.ntasks <= MaxTasks
    /\ LET uiw == Len(SelectSeq(u.queue \o surface, LAMBDA c : c = UiChunk)) IN
       /\ uiw <= MaxUiWrites
       /\ u.ntasks + uiw <= MaxConsoleOps
    /\ UNCHANGED <<app, append_errors, files, tools, artifacts, afterq, surface>>

\* A hand-off that puts the newest line first.
QueuePutFront(q, c) == <<c>> \o q

\* ConsolePane.write / writeline: put one (text, tag) on the queue.
QueuePut(q, c) == Append(q, c)

\* console.writeline(..) called by a handler of the UI thread.
UiWrite(u) == [u EXCEPT !.queue = QueuePut(@, UiChunk)]

\* A _set_running that changes the controls and the status but not the flag.
_set_running_controls_only(u, r, by) ==
    [u EXCEPT !.buttons = ~r,
              !.status = IF r THEN "Running..." ELSE "Ready",
              !.mutators = @ \cup {by}]

\* A _set_running that sets the flag and leaves the controls as they are.
_set_running_flag_only(u, r, by) ==
    [u EXCEPT !.running = r, !.mutators = @ \cup {by}]

\* CompilerApp._set_running, executed by thread `by`.
_set_running(u, r, by) ==
    [u EXCEPT !.running = r,
              !.buttons = ~r,
              !.status = IF r THEN "Running..." ELSE "Ready",
              !.mutators = @ \cup {by}]

\* The tasks whose completion callback has run.
Completed(ts) == {t \in TaskIds : ts[t].pc = "completed"}

\* threading.Thread(target=...).start() for the next task.  What is recorded
\* of the tasks that completed before it is dropped.
StartThread(u, kind, arg) ==
    [u EXCEPT !.ntasks = @ + 1,
              !.res = "dispatched",
              !.tasks = IF u.ntasks < MaxTasks
                        THEN [t \in TaskIds |->
                                IF t = u.ntasks + 1
                                THEN [NoTask EXCEPT !.pc = "start", !.fn = kind,
                                         !.arg = arg, !.at = u.ap,
                                         !.pred = Completed(u.tasks)]
                                ELSE IF @[t].pc = "completed"
                                THEN [NoTask EXCEPT !.pc = "completed"]
                                ELSE @[t]]
                        ELSE @]

\* A dispatcher that never looks at the flag.
RejectsNever(r) == FALSE

\* `if self.running: return` of CompilerApp._run_background.
Rejects(r) == r

\* CompilerApp._run_background(target).
_run_background(u, kind) ==
    IF Rejects(u.running)
    THEN [u EXCEPT !.res = "rejected"]
    ELSE StartThread(_set_running(u, TRUE, "ui"), kind, NoPath)

\* CompilerIDEApp._run_async(func, task_name), func closing over `path`.
_run_async(u, kind, path) ==
    StartThread([u EXCEPT !.status = IF kind = "compile" THEN "Compiling" ELSE "Running",
                          !.buttons = FALSE,
                          !.mutators = @ \cup {"ui"}],
                kind, path)

\* What follows the save check in _action_compile / _action_run
\* (CompilerApp) and compile_current_file / run_current_file (CompilerIDEApp).
Proceed(u, kind) ==
    IF app = "CompilerApp"
    THEN IF u.ap = NoPath
         THEN [u EXCEPT !.res = "noactive", !.msg = "no_active_file"]
         ELSE _run_background(u, kind)
    ELSE _run_async(u, kind, u.ap)

\* CompilerApp._action_save with _action_save_as: `choice` is what the save-as
\* dialog returns (NoPath: dismissed), `ok` whether the write succeeds.
_action_save(u, choice, ok) ==
    LET target == IF u.ap = NoPath THEN choice ELSE u.ap IN
    IF target = NoPath THEN u
    ELSE IF ~ok THEN [u EXCEPT !.msg = "save_error"]
    ELSE UiWrite([u EXCEPT !.dirty = FALSE, !.ap = target, !.saved = TRUE])

\* CompilerIDEApp.save_current_file: current_file is set before the write.
save_current_file(u, choice, ok) ==
    LET target == IF u.ap = NoPath THEN choice ELSE u.ap IN
    IF target = NoPath THEN u
    ELSE IF ~ok THEN [u EXCEPT !.ap = target, !.msg = "save_error"]
    ELSE [u EXCEPT !.ap = target, !.dirty = FALSE,
                   !.saved = TRUE, !.status = "Saved", !.mutators = @ \cup {"ui"}]

SaveFile(u, choice, ok) ==
    IF app = "CompilerApp" THEN _action_save(u, choice, ok)
    ELSE save_current_file(u, choice, ok)

\* The answers the save prompt offers: askyesnocancel / askyesno.
Answers(a) == IF a = "CompilerApp" THEN {"yes", "no", "cancel"} ELSE {"yes", "no"}

\* A save check that goes on whatever the user declines.
ensure_proceeds(a, ans) == IF ans = "yes" THEN "save" ELSE "proceed"

\* The outcome of _ensure_save_before_action (askyesnocancel) and of
\* _ensure_current_file_saved (askyesno).
ensure_result(a, ans) ==
    IF a = "CompilerApp"
    THEN (CASE ans = "cancel" -> "abort" [] ans = "yes" -> "save" [] OTHER -> "proceed")
    ELSE (IF ans = "yes" THEN "save" ELSE "abort")

\* How a user event reaches a handler: a toolbar button (only while enabled),
\* a bind_all shortcut (CompilerApp only), the explorer tree.
Via(v) ==
    /\ modal = NoModal
    /\ v = "button" => buttons
    /\ v = "key" => app = "CompilerApp"

SaveChoices == IF active_path = NoPath THEN files \cup {NoPath} ELSE {NoPath}

\* Typing in the editor: CodeEditor._handle_modified / Tk's modified flag.
Edit ==
    /\ modal = NoModal
    /\ Commit([Cur EXCEPT !.dirty = TRUE], NoModal)

\* CompilerApp._open_path (from _action_open or the explorer) and
\* CompilerIDEApp.open_file (from open_selected_file or the tree); `ok` is
\* whether the file can be read.
Open(p, v, ok) ==
    /\ Via(v)
    /\ IF ~ok
       THEN Commit(Cur, NoModal)
       ELSE LET u == [Cur EXCEPT !.dirty = FALSE, !.ap = p] IN
            IF app = "CompilerApp"
            THEN Commit(UiWrite(u), NoModal)
            ELSE Commit([u EXCEPT !.status = "Opened", !.mutators = @ \cup {"ui"}], NoModal)

\* The Save button / Ctrl+S.
Save(v, choice, ok) ==
    /\ Via(v)
    /\ v # "tree"
    /\ Commit(SaveFile(Cur, choice, ok), NoModal)

\* _action_compile / _action_run, compile_current_file / run_current_file, up
\* to the save prompt.
Request(kind, v) ==
    /\ Via(v)
    /\ v # "tree"
    /\ IF app = "CompilerIDEApp" /\ active_path = NoPath
       THEN Commit([Cur EXCEPT !.res = "noactive", !.msg = "no_active_file"], NoModal)
       ELSE IF dirty
       THEN Commit(Cur, [NoModal EXCEPT !.dlg = "ask", !.kind = kind])
       ELSE Commit(Proceed(Cur, kind), NoModal)

\* The user answers "Save changes before proceeding?".
AnswerPrompt(ans, choice, ok) ==
    /\ modal.dlg = "ask"
    /\ LET u0 == [Cur EXCEPT !.prompted = TRUE, !.ans = ans]
           r == ensure_result(app, ans) IN
       CASE r = "abort" -> Commit([u0 EXCEPT !.res = "aborted"], NoModal)
         [] r = "proceed" -> Commit(Proceed(u0, modal.kind), NoModal)
         [] OTHER -> Commit(Proceed(SaveFile(u0, choice, ok), modal.kind), NoModal)

\* --------------------------------------------------------- the worker thread
\* What a worker hands to the console: a line, or (CompilerIDEApp) a clear.
Line(tag, kind) == [op |-> "append", tag |-> tag, kind |-> kind]
ClearOp == [op |-> "clear", tag |-> "none", kind |-> "clear"]
NoChunk == [task |-> 0, seq |-> 0, tag |-> "none", kind |-> "none"]

\* The tag a line carries: ConsolePane.write takes one, _append_console none.
Tag(a, tag) == IF a = "CompilerApp" THEN tag ELSE "untagged"

\* w with more console operations issued.
Say(w, ops) == [w EXCEPT !.out = @ \o ops]

\* _execute_command's echo of the command, then subprocess.run.
Execute(a, w, cmd) ==
    [Say(w, <<Line(Tag(a, "system"), "echo")>>) EXCEPT !.cmd = cmd, !.pc = "spawn"]

\* The run step proper, after the artifact check and the compile it may have
\* triggered: `if out.exists(): ...` (C/C++), the unconditional java command
\* (CompilerApp), `if exe.exists()` / `if class_file.exists()` (CompilerIDEApp).
\* `arts` are the artifacts that exist when the check is made.
run_artifact(a, w, arts) ==
    LET lang == Language(a, w.rpath)
        here == Artifact(a, w.rpath, lang) \in arts
        w1 == [w EXCEPT !.nested = FALSE] IN
    IF a = "CompilerApp" /\ lang = "java"
    THEN Execute(a, w1, [step |-> "run", tool |-> "java",
                         target |-> w.rpath, cwd |-> "parent"])
    ELSE IF here
    THEN Execute(a, w1, [step |-> "run",
                         tool |-> IF lang = "java" THEN "java" ELSE "artifact",
                         target |-> w.rpath,
                         cwd |-> IF a = "CompilerApp" THEN "build" ELSE "parent"])
    ELSE [w1 EXCEPT !.pc = "finally"]

\* Return from _compile_worker / _compile / _execute_command: to the run
\* step that called the compile, or to the task wrapper.
Return(a, w, arts) ==
    IF w.nested THEN run_artifact(a, w, arts) ELSE [w EXCEPT !.pc = "finally"]

\* CompilerApp._compile_worker up to subprocess.run: `cur` is
\* self.active_path as the worker reads it, `mk` whether build_dir.mkdir
\* succeeds (its exception reaches `except Exception` of _task_wrapper).
_compile_worker(w, cur, mk) ==
    LET path == cur
        lang == _detect_language(path)
        w1 == Say([w EXCEPT !.cpath = path],
                  <<Line("system", "compile_header"), Line("system", "file")>>)
        go == Execute("CompilerApp", w1,
                      [step |-> "compile", tool |-> Compiler(lang),
                       target |-> path, cwd |-> "parent"]) IN
    IF lang = "python" THEN go
    ELSE IF lang \in {"c", "cpp"}
    THEN IF Compiler(lang) \notin tools
         THEN Return("CompilerApp", Say(w1, <<Line("stderr", "tool_missing")>>), artifacts)
         ELSE IF ~mk
         THEN [Say(w1, <<Line("stderr", "error")>>) EXCEPT
                  !.raised = TRUE, !.nested = FALSE, !.pc = "finally"]
         ELSE go
    ELSE IF lang = "java"
    THEN IF "javac" \notin tools
         THEN Return("CompilerApp", Say(w1, <<Line("stderr", "tool_missing")>>), artifacts)
         ELSE go
    ELSE Return("CompilerApp", Say(w1, <<Line("stderr", "unsupported")>>), artifacts)

\* CompilerIDEApp._compile(path) up to subprocess.run.
_compile(w, path) ==
    LET lang == ide_language(path)
        w1 == Say([w EXCEPT !.cpath = path],
                  <<ClearOp, Line("untagged", "compiling")>>) IN
    IF lang = "none"
    THEN Return("CompilerIDEApp", Say(w1, <<Line("untagged", "unsupported")>>), artifacts)
    ELSE IF lang # "python" /\ Compiler(lang) \notin tools
    THEN Return("CompilerIDEApp", Say(w1, <<Line("untagged", "tool_missing")>>), artifacts)
    ELSE Execute("CompilerIDEApp", w1,
                 [step |-> "compile", tool |-> Compiler(lang),
                  target |-> path, cwd |-> "parent"])

\* A run that calls the compile path whether or not the artifact is there.
NeedsCompileAlways(present) == TRUE

\* `if not out.exists():` / `if not class_file.exists():` of the run step.
NeedsCompile(present) == ~present

\* w after the artifact check of the run step: `had` is what it found, and
\* `calls` counts the calls of the compile path it led to.
Checked(w, present) ==
    [w EXCEPT !.had = IF present THEN "present" ELSE "absent",
              !.calls = IF NeedsCompile(present) THEN @ + 1 ELSE @]

\* A Run that byte-compiles the file instead of interpreting it.
python_cmd_compiling(path) ==
    [step |-> "compile", tool |-> "python", target |-> path, cwd |-> "parent"]

\* The command a Run of a Python file starts: [sys.executable, str(path)]
\* (CompilerApp), [sys.executable, path.name] (CompilerIDEApp), in the
\* source file's directory.
python_cmd(path) ==
    [step |-> "run", tool |-> "python", target |-> path, cwd |-> "parent"]

\* CompilerApp._run_worker up to subprocess.run or its call of
\* _compile_worker, which reads self.active_path again.
_run_worker(w, cur) ==
    LET path == cur
        lang == _detect_language(path)
        w1 == Say([w EXCEPT !.rpath = path],
                  <<Line("system", "run_header"), Line("system", "file")>>)
        here == Artifact("CompilerApp", path, lang) \in artifacts
        w2 == Checked(w1, here)
        first == [Say(w2, <<Line("system", "compiling_first")>>) EXCEPT
                     !.pc = "c_enter", !.nested = TRUE] IN
    IF lang = "python"
    THEN Execute("CompilerApp", w1, python_cmd(path))
    ELSE IF lang \in {"c", "cpp"}
    THEN IF NeedsCompile(here)
         THEN first
         ELSE run_artifact("CompilerApp", w2, artifacts)
    ELSE IF lang = "java"
    THEN IF "java" \notin tools
         THEN [Say(w1, <<Line("stderr", "tool_missing")>>) EXCEPT !.pc = "finally"]
         ELSE IF NeedsCompile(here)
         THEN first
         ELSE run_artifact("CompilerApp", w2, artifacts)
    ELSE [Say(w1, <<Line("stderr", "unsupported")>>) EXCEPT !.pc = "finally"]

\* CompilerIDEApp._run(path) up to subprocess.run or its call of _compile.
_run(w, path) ==
    LET lang == ide_language(path)
        w1 == Say([w EXCEPT !.rpath = path], <<ClearOp, Line("untagged", "running")>>)
        here == Artifact("CompilerIDEApp", path, lang) \in artifacts
        w2 == Checked(w1, here) IN
    IF lang = "python"
    THEN Execute("CompilerIDEApp", w1, python_cmd(path))
    ELSE IF lang = "none"
    THEN [Say(w1, <<Line("untagged", "unsupported")>>) EXCEPT !.pc = "finally"]
    ELSE IF lang = "java" /\ "java" \notin tools
    THEN [Say(w1, <<Line("untagged", "tool_missing")>>) EXCEPT !.pc = "finally"]
    ELSE IF NeedsCompile(here)
    THEN [Say(w2, <<Line("untagged", "compiling_first")>>) EXCEPT
             !.pc = "c_enter", !.nested = TRUE]
    ELSE run_artifact("CompilerIDEApp", w2, artifacts)

\* The exit line: "[exit N]" (kinds "exit0", "exit1") in CompilerApp,
\* "\n[exit code N]\n" (kinds "exit_code0", "exit_code1") in CompilerIDEApp.
exit_line(a, code) ==
    IF a = "CompilerApp"
    THEN (IF code = 0 THEN "exit0" ELSE "exit1")
    ELSE (IF code = 0 THEN "exit_code0" ELSE "exit_code1")

\* Every kind of exit line.
ExitKinds == {exit_line(a, code) : a \in Apps, code \in {0, 1}}

\* The lines a finished child leaves: _execute_command after subprocess.run,
\* _handle_completed_process (and the byte-compile note of _compile).
completed_lines(a, cmd, o) ==
    (IF o.so THEN <<Line(Tag(a, "stdout"), "stdout")>> ELSE <<>>)
    \o (IF o.se THEN <<Line(Tag(a, "stderr"), "stderr")>> ELSE <<>>)
    \o <<Line(Tag(a, "system"), exit_line(a, o.code))>>
    \o (IF a = "CompilerIDEApp" /\ cmd.step = "compile" /\ cmd.tool = "python" /\ o.code = 0
        THEN <<Line("untagged", "py_ok")>> ELSE <<>>)

\* A wrapper that schedules the completion callback only on normal return.
SchedulesUnlessRaised(raised) == ~raised

\* `finally:` of _task_wrapper / task_wrapper: the completion callback is
\* scheduled whether or not the body raised.
SchedulesCompletion(raised) == TRUE

\* A _call_ui that runs the callable on whichever thread calls it.
_call_ui_direct(thread) == "direct"

\* CompilerIDEApp._call_ui: run on the calling thread if it is the main
\* thread, else schedule with after(0).
_call_ui(thread) == IF thread = "ui" THEN "direct" ELSE "after"

\* How a thread's console write travels: ConsolePane.write always queues.
WriteMode(a, thread) == IF a = "CompilerApp" THEN "queue" ELSE _call_ui(thread)

\* The console operations `ops` of task t as callbacks, its lines numbered
\* from n + 1 in the order written.
RECURSIVE Callbacks(_, _, _)
Callbacks(t, n, ops) ==
    IF ops = <<>> THEN <<>>
    ELSE LET e == Head(ops) IN
         IF e.op = "append"
         THEN <<[cb |-> "append", task |-> t,
                 chunk |-> [task |-> t, seq |-> n + 1, tag |-> e.tag, kind |-> e.kind]]>>
              \o Callbacks(t, n + 1, Tail(ops))
         ELSE <<[cb |-> "clear", task |-> t, chunk |-> NoChunk]>>
              \o Callbacks(t, n, Tail(ops))

\* ConsolePane.write for each of `cbs` in turn.
RECURSIVE PutAll(_, _)
PutAll(q, cbs) ==
    IF cbs = <<>> THEN q ELSE PutAll(QueuePut(q, Head(cbs).chunk), Tail(cbs))

\* do_append / do_clear of CompilerIDEApp (ConsolePane._append) for each of
\* `cbs` in turn.
RECURSIVE ApplyAll(_, _)
ApplyAll(sf, cbs) ==
    IF cbs = <<>> THEN sf
    ELSE ApplyAll(IF Head(cbs).cb = "append" THEN Append(sf, Head(cbs).chunk) ELSE <<>>,
                  Tail(cbs))

Lines(cbs) == SelectSeq(cbs, LAMBDA c : c.cb = "append")

\* Task t goes on as w, and the console operations w issued are handed over.
Emit(t, w) ==
    LET cbs == Callbacks(t, w.nw, w.out)
        mode == WriteMode(app, "worker") IN
    /\ tasks' = [tasks EXCEPT ![t] = [w EXCEPT !.out = <<>>, !.nw = @ + Len(Lines(cbs))]]
    /\ queue' = IF mode = "queue" THEN PutAll(queue, cbs) ELSE queue
    /\ afterq' = IF mode = "after" THEN afterq \o cbs ELSE afterq
    /\ surface' = IF mode = "direct" THEN ApplyAll(surface, cbs) ELSE surface
    /\ mutators' = IF mode = "direct" /\ cbs # <<>> THEN mutators \cup {"worker"}
                   ELSE mutators

\* The worker thread runs target() / func() up to its first child process,
\* or (pc = "c_enter") the compile that a run calls.
WorkerEnter(t, mk) ==
    LET w == tasks[t] IN
    /\ w.pc \in {"start", "c_enter"}
    /\ Emit(t, IF w.pc = "c_enter" \/ w.fn = "compile"
               THEN (IF app = "CompilerApp" THEN _compile_worker(w, active_path, mk)
                     ELSE _compile(w, w.arg))
               ELSE (IF app = "CompilerApp" THEN _run_worker(w, active_path)
                     ELSE _run(w, w.arg)))
    /\ UNCHANGED <<app, append_errors, files, tools, active_path, dirty, artifacts,
                   running, buttons, status, modal, ntasks>>
    /\ outcome' = NoOutcome

\* An executor that reports a failed start as an exit code.
spawn_failed_as_exit(a, w) == Say(w, <<Line(Tag(a, "system"), exit_line(a, 1))>>)

\* `except Exception as ex:` around subprocess.run: the execution-error line
\* ("Execution failed: ..", tagged stderr, in CompilerApp; "Error: .." in
\* CompilerIDEApp), and nothing else.
spawn_failed(a, w) ==
    Say(w, <<IF a = "CompilerApp" THEN Line("stderr", "exec_failed")
             ELSE Line("untagged", "error")>>)

\* subprocess.run starts the child, or fails to (OSError): _execute_command
\* reports it; in CompilerIDEApp it ends _compile / _run in `except Exception`.
WorkerSpawn(t, ok) ==
    LET w == tasks[t] IN
    /\ w.pc = "spawn"
    /\ IF ok
       THEN Emit(t, [w EXCEPT !.pc = "wait", !.cmds = Append(@, w.cmd)])
       ELSE Emit(t, Return(app, spawn_failed(app, w), artifacts))
    /\ UNCHANGED <<app, append_errors, files, tools, active_path, dirty, artifacts,
                   running, buttons, status, modal, ntasks>>
    /\ outcome' = NoOutcome

\* What a finished compiler leaves on disk.
Built(a, cmd, o, arts) ==
    LET lang == Language(a, cmd.target) IN
    IF cmd.step = "compile" /\ o.made /\ lang \in {"c", "cpp", "java"}
    THEN arts \cup {Artifact(a, cmd.target, lang)}
    ELSE arts

\* The child exits; subprocess.run returns its captured output and code.
WorkerWait(t, o) ==
    LET w == tasks[t] IN
    /\ w.pc = "wait"
    /\ artifacts' = Built(app, w.cmd, o, artifacts)
    /\ Emit(t, Return(app, Say([w EXCEPT !.codes = Append(@, o.code)],
                                completed_lines(app, w.cmd, o)), artifacts'))
    /\ UNCHANGED <<app, append_errors, files, tools, active_path, dirty,
                   running, buttons, status, modal, ntasks>>
    /\ outcome' = NoOutcome

\* `finally:` of the task wrapper: schedule the completion callback.
WorkerFinally(t) ==
    LET w == tasks[t] IN
    /\ w.pc = "finally"
    /\ tasks' = [tasks EXCEPT ![t] = [NoTask EXCEPT !.pc = "done", !.fn = w.fn,
                                       !.nw = w.nw, !.at = w.at, !.pred = w.pred,
                                       !.cmds = w.cmds, !.raised = w.raised,
                                       !.rpath = w.rpath, !.had = w.had,
                                       !.calls = w.calls, !.codes = w.codes]]
    /\ afterq' = IF SchedulesCompletion(w.raised)
                 THEN Append(afterq, [cb |-> "done", task |-> t, chunk |-> NoChunk])
                 ELSE afterq
    /\ UNCHANGED <<app, append_errors, files, tools, active_path, dirty, artifacts,
                   running, buttons, status, modal, ntasks, queue, surface,
                   mutators>>
    /\ outcome' = NoOutcome

\* ------------------------------------------------- callbacks on the UI thread
\* A flush that appends what it took off the queue newest first.
RECURSIVE FlushNewestFirst(_)
FlushNewestFirst(q) ==
    IF q = <<>> THEN <<>> ELSE FlushNewestFirst(Tail(q)) \o <<Head(q)>>

\* The order in which _flush_queue appends what it takes off the queue.
FlushOrder(q) == q

\* ConsolePane._flush_queue: drain the queue onto the Text widget.
FlushQueue ==
    /\ app = "CompilerApp"
    /\ queue # <<>>
    /\ surface' = surface \o FlushOrder(queue)
    /\ queue' = <<>>
    /\ mutators' = mutators \cup {"ui"}
    /\ UNCHANGED <<app, append_errors, files, tools, active_path, dirty, artifacts,
                   running, buttons, status, modal, tasks, ntasks, afterq>>
    /\ outcome' = NoOutcome

\* ConsolePane._flush_queue when self._append raises on the k-th line it
\* takes: the lines before it are on the Text widget, the k-th has left the
\* queue (`ins`: text.insert had inserted it before a later widget call
\* raised), the exception leaves the loop, `finally:` schedules the next
\* flush, and the lines behind the k-th stay queued for it.
FlushQueueRaises(k, ins) ==
    /\ app = "CompilerApp"
    /\ k \in 1..Len(queue)
    /\ append_errors < MaxAppendErrors
    /\ append_errors' = append_errors + 1
    /\ surface' = surface \o SubSeq(queue, 1, IF ins THEN k ELSE k - 1)
    /\ queue' = SubSeq(queue, k + 1, Len(queue))
    /\ mutators' = mutators \cup {"ui"}
    /\ UNCHANGED <<app, files, tools, active_path, dirty, artifacts,
                   running, buttons, status, modal, tasks, ntasks, afterq>>
    /\ outcome' = NoOutcome

\* Tk runs the oldest after(0) callback: the completion callback
\* (_set_running(False); _set_status("Ready"), _set_toolbar_state(True)),
\* or do_append / do_clear of CompilerIDEApp.
AfterCallback ==
    /\ afterq # <<>>
    /\ LET c == Head(afterq) IN
       /\ afterq' = Tail(afterq)
       /\ mutators' = mutators \cup {"ui"}
       /\ IF c.cb = "done"
          THEN /\ running' = FALSE
               /\ buttons' = TRUE
               /\ status' = "Ready"
               /\ tasks' = [tasks EXCEPT ![c.task].pc = "completed"]
               /\ surface' = surface
          ELSE /\ surface' = ApplyAll(surface, <<c>>)
               /\ UNCHANGED <<running, buttons, status, tasks>>
    /\ UNCHANGED <<app, append_errors, files, tools, active_path, dirty, artifacts,
                   modal, ntasks, queue>>
    /\ outcome' = NoOutcome

\* ------------------------------------------------------------ specification
Next ==
    \/ Edit
    \/ \E p \in files, v \in {"button", "key", "tree"}, ok \in BOOLEAN :
          Open(p, v, ok)
    \/ \E v \in {"button", "key"}, choice \in SaveChoices, ok \in BOOLEAN :
          Save(v, choice, ok)
    \/ \E kind \in {"compile", "run"}, v \in {"button", "key"} : Request(kind, v)
    \/ \E ans \in Answers(app), choice \in SaveChoices, ok \in BOOLEAN :
          AnswerPrompt(ans, choice, ok)
    \/ FlushQueue
    \/ AfterCallback
    \/ \E t \in TaskIds, mk \in BOOLEAN : WorkerEnter(t, mk)
    \/ \E t \in TaskIds, ok \in BOOLEAN : WorkerSpawn(t, ok)
    \/ \E t \in TaskIds, o \in Outcomes : WorkerWait(t, o)
    \/ \E t \in TaskIds : WorkerFinally(t)

Spec == Init /\ [][Next]_vars

\* The UI thread keeps running its scheduled callbacks, and a worker whose
\* body has ended runs its `finally:` block.
LiveSpec ==
    /\ Spec
    /\ WF_vars(AfterCallback)
    /\ \A t \in TaskIds : WF_vars(WorkerFinally(t))

\* The program when a widget call of ConsolePane._append may raise
\* (CompilerApp, the workspace that holds one file).
FaultNext ==
    \/ Next
    \/ \E k \in 1..Len(queue), ins \in BOOLEAN : FlushQueueRaises(k, ins)

\* CompilerApp after construction, in the workspace that holds one file.
FaultInit ==
    /\ Init
    /\ app = "CompilerApp"
    /\ files = {x_h}

\* The UI thread keeps running its scheduled callbacks, the flush it
\* reschedules every 60 ms among them, and a worker whose body has ended runs
\* its `finally:` block.
FaultSpec ==
    /\ FaultInit
    /\ [][FaultNext]_vars
    /\ WF_vars(AfterCallback)
    /\ WF_vars(FlushQueue)
    /\ \A t \in TaskIds : WF_vars(WorkerFinally(t))

\* ------------------------------------------------------------------ claims
\* The tasks in flight: dispatched, completion callback not yet run.
InFlight == {t \in TaskIds : tasks[t].pc \notin {"none", "completed"}}

\* C1: single-flight.  In every reachable state of either variant at most one
\* worker task is in flight (dispatched and its completion callback not yet
\* run), and every task ever dispatched has been started: none waits to start.
C1_SingleFlight ==
    /\ Cardinality(InFlight) <= 1
    /\ ntasks = Cardinality({t \in TaskIds : tasks[t].pc # "none"})

\* C1 witness: a request arrived while a task was in flight and was turned away.
C1_Witness ==
    /\ outcome.res = "rejected"
    /\ Cardinality(InFlight) = 1

\* C2: Busy always returns to Idle.  Once the body of an accepted task has
\* ended (normal return, non-zero exit or exception), its completion callback
\* eventually runs on the UI thread, leaving the flag reset and the controls
\* enabled.
C2_BusyReturnsToIdle ==
    \A t \in TaskIds :
        (tasks[t].pc = "finally") ~> (tasks[t].pc = "completed" /\ ~running /\ buttons)

\* C2 witness: a task whose body raised has had its completion callback run.
C2_Witness ==
    \E t \in TaskIds :
        /\ tasks[t].pc = "completed"
        /\ tasks[t].raised
        /\ ~running
        /\ buttons

\* The answer by which the user cancels the save prompt: Cancel of
\* askyesnocancel, No of askyesno.
CancelAnswer == IF app = "CompilerApp" THEN "cancel" ELSE "no"

\* C3: cancel aborts before Busy.  The step in which the user cancels the save
\* prompt of a compile / run request aborts the request and changes nothing:
\* the flag and the controls stay as they were, no worker thread is started,
\* no child process is spawned, nothing is written to disk, and the console
\* (queued, scheduled or shown) is unchanged.
C3_CancelAborts ==
    [][outcome'.ans = CancelAnswer =>
          /\ outcome'.res = "aborted"
          /\ ~outcome'.saved
          /\ UNCHANGED <<running, buttons, status, tasks, ntasks, artifacts,
                         active_path, dirty, queue, afterq, surface>>]_vars

\* C3 witness: the user has just cancelled the prompt on a dirty document.
C3_Witness ==
    /\ outcome.ans = CancelAnswer
    /\ outcome.res = "aborted"
    /\ outcome.prompted
    /\ dirty
    /\ ntasks = 0

\* C4: path snapshot.  Every command a task has spawned, the compile that a
\* run triggers included, targets the path that was active when the task was
\* dispatched.
C4_PathSnapshot ==
    \A t \in TaskIds :
        \A i \in 1..Len(tasks[t].cmds) : tasks[t].cmds[i].target = tasks[t].at

\* C5: already saved at dispatch.  In the step that hands a compile or run
\* task to a worker, the active document is left not dirty, whatever was
\* answered to the save prompt and however the save it triggered ended.
C5_SavedAtDispatch ==
    [][ntasks' = ntasks + 1 => ~dirty']_vars

\* C6: a rejected request leaves the in-flight task undisturbed.  The request
\* that _run_background turns away has shown no save prompt, has written
\* nothing to disk, and its last step has put no line on the console queue.
C6_RejectedUndisturbed ==
    [][outcome'.res = "rejected" =>
          /\ ~outcome'.prompted
          /\ ~outcome'.saved
          /\ queue' = queue]_vars

\* C7: a request that arrives while the flag is set is rejected and the user
\* is told that a task is already running.
C7_RejectionTold ==
    outcome.res = "rejected" => outcome.msg = "already_running"

\* The console lines handed over and not yet shown, oldest first.
RECURSIVE Chunks(_)
Chunks(cbs) ==
    IF cbs = <<>> THEN <<>>
    ELSE (IF Head(cbs).cb = "append" THEN <<Head(cbs).chunk>> ELSE <<>>)
         \o Chunks(Tail(cbs))

InTransit == IF app = "CompilerApp" THEN queue ELSE Chunks(afterq)

\* The lines of task t in s, in the order they stand there.
OfTask(t, s) == SelectSeq(s, LAMBDA c : c.task = t)

C9_NoInterleaving ==
    LET s == surface \o InTransit IN
    \A i, j \in DOMAIN s :
        (s[i].task \in TaskIds /\ s[j].task \in tasks[s[i].task].pred) => j < i

\* C9 witness: B was dispatched with lines of the completed A not yet shown;
\* lines of both wait in the queue.
C9_Witness ==
    \E i, j \in DOMAIN queue :
        /\ queue[i].task \in TaskIds
        /\ queue[j].task \in tasks[queue[i].task].pred

\* C10: UI-thread-only effects.  Every change of the console, the status
\* text, the buttons and the flag was made by the UI thread.
C10_UiThreadOnly == mutators \subseteq {"ui"}

\* C10 witness: a task has completed, its lines are on the surface and the
\* controls are enabled again.
C10_Witness ==
    \E t \in TaskIds :
        /\ tasks[t].pc = "completed"
        /\ OfTask(t, surface) # <<>>
        /\ buttons
        /\ status = "Ready"

\* The languages whose run step executes a compiled artifact.
Compiled == {"c", "cpp", "java"}

\* C11: run never executes a missing artifact.  Every run command a task has
\* spawned for a C, C++ or Java file found the file's artifact in place: none
\* is spawned while the artifact is absent (artifacts are never removed).
C11_RunNeedsArtifact ==
    \A t \in TaskIds :
        \A i \in 1..Len(tasks[t].cmds) :
            LET c == tasks[t].cmds[i]
                lang == Language(app, c.target) IN
            (c.step = "run" /\ lang \in Compiled)
                => Artifact(app, c.target, lang) \in artifacts

\* The positions in the commands task t spawned of those of step `step`.
StepsAt(t, step) == {i \in 1..Len(tasks[t].cmds) : tasks[t].cmds[i].step = step}

\* C12 as stated: a Run of a C, C++ or Java file whose artifact is absent
\* (and so was absent when the Run started) has called the compile path
\* exactly once.
C12_CompileWhenAbsent ==
    \A t \in TaskIds :
        LET w == tasks[t]
            lang == Language(app, w.rpath) IN
        (w.fn = "run" /\ w.rpath # NoPath /\ lang \in Compiled
            /\ Artifact(app, w.rpath, lang) \notin artifacts)
            => w.calls = 1

\* C12, amended: a Run that reaches the artifact check (for Java: one that
\* found the java runtime) and finds the artifact absent calls the compile
\* path exactly once, and any compile command comes before any run command;
\* one that finds the artifact present, or that stops before the check,
\* never calls the compile path and spawns no compile command.
C12_CompileOnceFirst ==
    \A t \in TaskIds :
        LET w == tasks[t] IN
        w.fn = "run" =>
            /\ w.had = "absent" => w.calls = 1
            /\ w.had \in {"present", "none"} =>
                   (w.calls = 0 /\ StepsAt(t, "compile") = {})
            /\ Cardinality(StepsAt(t, "compile")) <= w.calls
            /\ \A i \in StepsAt(t, "compile"), j \in StepsAt(t, "run") : i < j

\* C12 witness: a Run found the artifact absent, compiled once, then ran.
C12_Witness ==
    \E t \in TaskIds :
        /\ tasks[t].fn = "run"
        /\ tasks[t].had = "absent"
        /\ tasks[t].calls = 1
        /\ Len(tasks[t].cmds) = 2
        /\ tasks[t].cmds[1].step = "compile"
        /\ tasks[t].cmds[2].step = "run"

\* Task t has written a line of kind `kind` that is shown or on its way.
Wrote(t, kind) ==
    \E i \in DOMAIN (surface \o InTransit) :
        (surface \o InTransit)[i].task = t /\ (surface \o InTransit)[i].kind = kind

\* C13: tool missing means no spawn.  A task that has reported a compiler or
\* runtime missing from the search path has spawned no child process and has
\* written no exit line.
C13_ToolMissingNoSpawn ==
    \A t \in TaskIds :
        (tasks[t].fn # "none" /\ Wrote(t, "tool_missing"))
            => /\ tasks[t].cmds = <<>>
               /\ \A k \in ExitKinds : ~Wrote(t, k)

\* The extensions the toolchain mapping is specified for.
SupportedExts == {".py", ".c", ".cpp", ".cc", ".cxx", ".java"}

\* C14: an unsupported file type spawns nothing.  No command a task spawned
\* targets a file whose extension is not a supported one, and a task whose
\* body has ended on such a file has written the unsupported-type message.
C14_UnsupportedNoSpawn ==
    \A t \in TaskIds :
        /\ \A i \in 1..Len(tasks[t].cmds) :
               Lower(tasks[t].cmds[i].target.ext) \in SupportedExts
        /\ (tasks[t].pc = "finally" /\ tasks[t].cpath # NoPath
               /\ Lower(tasks[t].cpath.ext) \notin SupportedExts)
              => Wrote(t, "unsupported")

\* The lines handed over in the step being taken (a worker step appends to
\* what is in transit), and the kinds of those task t wrote.
NewLines == SubSeq(InTransit', Len(InTransit) + 1, Len(InTransit'))
NewKinds(t) == {NewLines[i].kind : i \in {j \in DOMAIN NewLines : NewLines[j].task = t}}

\* C15: spawn failure is a distinct outcome.  When starting the child fails,
\* the step reports an execution error, writes no exit line for the command,
\* raises nothing past the executor, and the task goes on (to the run step
\* that called the compile, or to its end).
C15_SpawnFailure ==
    [][\A t \in TaskIds :
          (tasks[t].pc = "spawn" /\ tasks'[t] # tasks[t]
              /\ tasks'[t].cmds = tasks[t].cmds /\ tasks'[t].fn = tasks[t].fn)
          => /\ NewKinds(t) \cap {"exec_failed", "error"} # {}
             /\ NewKinds(t) \cap ExitKinds = {}
             /\ ~tasks'[t].raised
             /\ tasks'[t].pc \in {"finally", "spawn"}]_vars

\* C15 witness: a task whose child could not be started has reported it and
\* its completion callback has run.
C15_Witness ==
    \E t \in TaskIds :
        /\ tasks[t].pc = "completed"
        /\ tasks[t].cmds = <<>>
        /\ Wrote(t, "exec_failed") \/ (app = "CompilerIDEApp" /\ Wrote(t, "error"))
        /\ ~running
        /\ buttons

\* The extension-to-toolchain mapping as specified, on the lowercased
\* extension; "none" is NotSupported.
Resolve(ext) ==
    LET e == Lower(ext) IN
    CASE e = ".py" -> "python"
      [] e = ".c" -> "c"
      [] e \in {".cpp", ".cc", ".cxx"} -> "cpp"
      [] e = ".java" -> "java"
      [] OTHER -> "none"

\* C16: language resolution.  Whenever a task has resolved the language of
\* the file it compiles or runs, the variant's mapping gave what the
\* specified mapping gives: NotSupported for every extension but .py, .c,
\* .cpp / .cc / .cxx and .java, header extensions included.
C16_Resolution ==
    \A t \in TaskIds :
        \A p \in {tasks[t].cpath, tasks[t].rpath} \ {NoPath} :
            Language(app, p) = Resolve(p.ext)

\* The exit line as specified, "[exit <code>]".
ExitEcho(code) == IF code = 0 THEN "exit0" ELSE "exit1"

\* The kinds of the lines task t wrote, in order, those among ks only.
KindsOf(t, ks) ==
    LET ss == SelectSeq(surface \o InTransit, LAMBDA c : c.task = t /\ c.kind \in ks) IN
    [i \in 1..Len(ss) |-> ss[i].kind]

\* C17: exit code echo.  The exit lines a task has written are one
\* "[exit <code>]" per child that completed, in the order the children
\* completed and each with that child's raw exit code; the line comes after
\* the child's stdout and stderr text; and an execution error is reported
\* only for a command that did not start, never for a child that completed,
\* whatever its code.
C17_ExitEcho ==
    \A t \in TaskIds :
        LET w == tasks[t]
            all == KindsOf(t, {"echo", "stdout", "stderr", "exec_failed"} \cup ExitKinds) IN
        w.fn # "none" =>
            /\ KindsOf(t, ExitKinds) = [i \in 1..Len(w.codes) |-> ExitEcho(w.codes[i])]
            /\ \A i \in DOMAIN all :
                   /\ all[i] = "stdout" =>
                          i < Len(all) /\ all[i + 1] \in {"stderr"} \cup ExitKinds
                   /\ all[i] = "stderr" => i < Len(all) /\ all[i + 1] \in ExitKinds
                   /\ all[i] \in ExitKinds =>
                          i > 1 /\ all[i - 1] \in {"echo", "stdout", "stderr"}
                   /\ all[i] = "exec_failed" => i > 1 /\ all[i - 1] = "echo"

\* C18: chunk tagging.  Every line delivered to the console, or on its way
\* there, carries one of the tags system, stdout, stderr: a child's stdout
\* text carries stdout, its stderr text stderr, and the echo of the command
\* and the exit line carry system.
C18_ChunkTagging ==
    \A i \in DOMAIN (surface \o InTransit) :
        LET c == (surface \o InTransit)[i] IN
        /\ c.tag \in {"system", "stdout", "stderr"}
        /\ c.kind = "stdout" => c.tag = "stdout"
        /\ c.kind = "stderr" => c.tag = "stderr"
        /\ c.kind \in {"echo"} \cup ExitKinds => c.tag = "system"

\* C19: working directory.  Every command a task has started, the run of a
\* compiled C or C++ artifact included, was started with the parent directory
\* of the source file as its working directory.
C19_WorkingDirectory ==
    \A t \in TaskIds :
        \A i \in DOMAIN tasks[t].cmds : tasks[t].cmds[i].cwd = "parent"

\* C20: a Python run needs no compile.  A Run of a .py file starts the
\* interpreter on the source and nothing else: it never takes the compile
\* path, the one child it has started is the interpreter on the file it
\* runs, and once past the spawn it has started that child or has reported
\* that it could not be started.
C20_PythonRunOnly ==
    \A t \in TaskIds :
        LET w == tasks[t] IN
        (w.fn = "run" /\ w.rpath # NoPath /\ Language(app, w.rpath) = "python") =>
            /\ w.calls = 0
            /\ ~w.nested
            /\ w.cpath = NoPath
            /\ Len(w.cmds) <= 1
            /\ \A i \in DOMAIN w.cmds :
                   /\ w.cmds[i].step = "run"
                   /\ w.cmds[i].tool = "python"
                   /\ w.cmds[i].target = w.rpath
            /\ w.pc \in {"wait", "finally", "completed"} =>
                   \/ Len(w.cmds) = 1
                   \/ Wrote(t, "exec_failed")
                   \/ app = "CompilerIDEApp" /\ Wrote(t, "error")

\* C20 witness: after an earlier task compiled, a Run of a .py file has
\* completed, its one child being the interpreter, which exited.
C20_Witness ==
    \E t \in TaskIds :
        /\ tasks[t].fn = "run"
        /\ tasks[t].pc = "completed"
        /\ Language(app, tasks[t].rpath) = "python"
        /\ Len(tasks[t].cmds) = 1
        /\ Len(tasks[t].codes) = 1
        /\ \E s \in tasks[t].pred : Wrote(s, "compile_header")

\* C21: the flag covers the worker (CompilerApp).  While the flag is false no
\* worker thread is in a task body and no child process is alive: every task
\* is undispatched or has had its completion callback run.  The flag goes up
\* only in the step of the UI thread that dispatches a task, which finds it
\* down and starts the thread in the same step, and it goes down only when
\* the completion callback of that task, the latest dispatched, runs.
C21_FlagCoversWorker ==
    /\ [](app = "CompilerApp" /\ ~running => InFlight = {})
    /\ [][app = "CompilerApp" =>
             /\ (~running /\ running') =>
                    /\ outcome'.res = "dispatched"
                    /\ ntasks' = ntasks + 1
                    /\ tasks'[ntasks'].pc = "start"
                    /\ InFlight' = {ntasks'}
                    /\ "worker" \notin mutators'
             /\ (running /\ ~running') =>
                    /\ afterq # <<>>
                    /\ Head(afterq).cb = "done"
                    /\ Head(afterq).task = ntasks
                    /\ tasks[ntasks].pc = "done"
                    /\ tasks'[ntasks].pc = "completed"
                    /\ "worker" \notin mutators']_vars

\* C21 witness: the flag is down again after a task whose child process ran
\* to its exit.
C21_Witness ==
    /\ app = "CompilerApp"
    /\ ~running
    /\ \E t \in TaskIds : tasks[t].pc = "completed" /\ Len(tasks[t].codes) = 1

\* C22: output is delivered before Idle.  Once the completion callback of a
\* task has run, none of the lines the task wrote is still on its way to the
\* console: all of them were delivered before the UI returned to Idle.
C22_DeliveredBeforeIdle ==
    \A t \in TaskIds :
        tasks[t].pc = "completed" => OfTask(t, InTransit) = <<>>

\* What has been written to the console: shown, or queued behind it.
Written == surface \o queue

\* C23: eventual delivery without blocking (CompilerApp).  A write is never
\* refused; what has been written stays, in the order written, ahead of
\* whatever is written later, and no line of a task is there twice; and the
\* queue is emptied again and again, so every line written from any thread
\* reaches the surface, once.
C23_EventualDelivery ==
    /\ [](app = "CompilerApp" =>
             \A i, j \in DOMAIN Written :
                 (Written[i] = Written[j] /\ Written[i].task \in TaskIds) => i = j)
    /\ [][app = "CompilerApp" =>
             /\ Len(Written') >= Len(Written)
             /\ SubSeq(Written', 1, Len(Written)) = Written]_vars
    /\ (queue # <<>>) ~> (queue = <<>>)

\* C24: the controls mirror the flag (CompilerApp).  The toolbar buttons are
\* disabled and the status reads "Running..." exactly when the flag is true;
\* they are enabled and the status reads "Ready" exactly when it is false.
C24_ControlsMirrorFlag ==
    app = "CompilerApp" =>
        /\ running <=> ~buttons
        /\ running <=> status = "Running..."
        /\ ~running <=> status = "Ready"

\* C24 witness: a task has completed and the next one is running, with the
\* buttons disabled and the status "Running...".
C24_Witness ==
    /\ app = "CompilerApp"
    /\ running
    /\ ~buttons
    /\ status = "Running..."
    /\ Completed(tasks) # {}
    /\ InFlight # {}

====
